---- MODULE Spec2Model ----
(***************************************************************************)
(* orbitize/read_input.py : read_formatted_file                            *)
(*                                                                         *)
(* The function reads a table of astrometric measurements and rewrites it  *)
(* into the six-column table (epoch, quant1, quant1_err, quant2,           *)
(* quant2_err, quant_type).  The model follows the function statement by   *)
(* statement: the column validation (lines 56-80), the whole-table epoch   *)
(* check (82-83), the per-row loop (86-100) and the return (102).          *)
(*                                                                         *)
(* Representation.                                                         *)
(*  - A table is [columns, rows]; a row is a function from the names in    *)
(*    `columns` to cells.  Reading row[c] for a name that is not a column  *)
(*    raises KeyError, as astropy's Row.__getitem__ does.                  *)
(*  - A cell is Masked (a blank entry of the file) or Cell(v).  The table  *)
(*    reader is taken to hand over masked columns, so that `.mask` is      *)
(*    defined for every column of the file.                                *)
(*  - Epochs are counted in half days, so that 2400000.5 d is the integer  *)
(*    4800001 and the subtraction of line 90 is an integer subtraction     *)
(*    (on this grid the float subtraction is exact).                       *)
(*  - None in the "rv" row (line 99) and a masked cell copied into the     *)
(*    output are both the null value Masked.                               *)
(***************************************************************************)
EXTENDS Integers, Sequences, FiniteSets, TLC

VARIABLES input_table, pc, have, index, rowpos, output_table, origin,
          exception, returned

vars == <<input_table, pc, have, index, rowpos, output_table, origin,
          exception, returned>>

---------------------------------------------------------------------------
(* Bounds of the input family *)

\* longest table of the row-pool family
MaxRows == 3

\* longest table of the schema family
SchemaRows == 1

---------------------------------------------------------------------------
(* Cells, columns, exceptions *)

Masked == [mask |-> TRUE]

Cell(v) == [mask |-> FALSE, value |-> v]

\* 2400000.5 days, in half days (lines 89 and 90)
JD_OFFSET == 4800001

MeasurementColumns == {"raoff", "decoff", "sep", "pa", "rv"}

ErrorColumns == {"raoff_err", "decoff_err", "sep_err", "pa_err", "rv_err"}

OptionalColumns == MeasurementColumns \cup ErrorColumns

AllColumns == {"epoch"} \cup OptionalColumns

NoException == [type |-> "none", msg |-> ""]

MissingEpochColumn == [type |-> "Exception", msg |-> "Input table MUST have epoch!"]

IncompleteEpochColumn ==
    [type |-> "Exception", msg |-> "Invalid input format: missing some epoch entries"]

KeyError(key) == [type |-> "KeyError", msg |-> key]

---------------------------------------------------------------------------
(* The input files the model reads (line 53) *)

\* A number that tells the columns apart
ColumnValue(c) ==
    CASE c = "raoff" -> 1 [] c = "raoff_err" -> 2
      [] c = "decoff" -> 3 [] c = "decoff_err" -> 4
      [] c = "sep" -> 5 [] c = "sep_err" -> 6
      [] c = "pa" -> 7 [] c = "pa_err" -> 8
      [] c = "rv" -> 9 [] c = "rv_err" -> 10

\* The value written in row i (from 1) of column c: different in every cell
CellValue(i, c) == Cell(100 * i + ColumnValue(c))

\* Epochs in half days: 51544.5, 2400000.5, 2400001.0, 2451545.0,
\* 4800001.0 and 4800002.0 days
EpochValues == {103089, 4800001, 4800002, 4903090, 9600002, 9600004}

DefaultEpoch == Cell(103089)

\* The sets of optional cells that are filled in a row of the pool
RowPatterns ==
    { {},
      {"raoff", "raoff_err"},
      {"raoff", "decoff"},
      {"sep", "sep_err", "pa", "pa_err"},
      {"rv", "rv_err"},
      {"raoff", "raoff_err", "decoff", "decoff_err", "rv"},
      OptionalColumns }

\* A row of the pool: its epoch cell and the optional cells it fills
RowPool ==
    {[epoch |-> DefaultEpoch, filled |-> p] : p \in RowPatterns}
    \cup {[epoch |-> Cell(e), filled |-> OptionalColumns] : e \in EpochValues}
    \cup {[epoch |-> Masked, filled |-> OptionalColumns]}

PoolRow(i, r, cols) ==
    [c \in cols |-> IF c = "epoch" THEN r.epoch
                    ELSE IF c \in r.filled THEN CellValue(i, c) ELSE Masked]

\* A file with header cols and n rows, row i drawn from the pool as f[i]
PoolTable(cols, n, f) ==
    [columns |-> cols, rows |-> [i \in 1..n |-> PoolRow(i, f[i], cols)]]

\* What a file does with an optional column: leaves it out of the header,
\* leaves it blank in every row, or fills it in every row
ColumnStates == {"absent", "blank", "filled"}

\* A file of n rows with each optional column c in state s[c]
SchemaTable(n, s) ==
    LET cols == {"epoch"} \cup {c \in OptionalColumns : s[c] # "absent"} IN
    [columns |-> cols,
     rows |-> [i \in 1..n |->
                 [c \in cols |-> IF c = "epoch" THEN DefaultEpoch
                                 ELSE IF s[c] = "filled" THEN CellValue(i, c)
                                 ELSE Masked]]]

\* The files read: every optional column in the header, with or without
\* the epoch column, and up to MaxRows rows drawn from the pool; or any
\* assignment of states to the optional columns, with 1 to SchemaRows rows
IsInputTable(tbl) ==
    \/ \E cols \in {AllColumns, OptionalColumns} : \E n \in 0..MaxRows :
          \E f \in [1..n -> RowPool] : tbl = PoolTable(cols, n, f)
    \/ \E n \in 1..SchemaRows : \E s \in [OptionalColumns -> ColumnStates] :
          tbl = SchemaTable(n, s)

---------------------------------------------------------------------------
(* The pieces of read_formatted_file *)

NumRows(tbl) == Len(tbl.rows)

\* (variant) the test of line 57 left out
HasEpochColumn_Always(tbl) == TRUE

\* lines 57-60
HasEpochColumn(tbl) == "epoch" \in tbl.columns

\* (variant) a column that is not in the header counts as filled
HaveVector_AbsentTrue(tbl, col) ==
    IF col \in tbl.columns
    THEN [i \in 1..NumRows(tbl) |-> ~tbl.rows[i][col].mask]
    ELSE [i \in 1..NumRows(tbl) |-> TRUE]

\* lines 61-80, one column: ~mask when the column exists, zeros otherwise
HaveVector(tbl, col) ==
    IF col \in tbl.columns
    THEN [i \in 1..NumRows(tbl) |-> ~tbl.rows[i][col].mask]
    ELSE [i \in 1..NumRows(tbl) |-> FALSE]

\* lines 57-80: the six presence vectors
Presence(tbl) ==
    [epoch |-> HaveVector(tbl, "epoch"),
     ra    |-> HaveVector(tbl, "raoff"),
     dec   |-> HaveVector(tbl, "decoff"),
     sep   |-> HaveVector(tbl, "sep"),
     pa    |-> HaveVector(tbl, "pa"),
     rv    |-> HaveVector(tbl, "rv")]

NoPresence == [epoch |-> <<>>, ra |-> <<>>, dec |-> <<>>, sep |-> <<>>, pa |-> <<>>, rv |-> <<>>]

\* (variant) the check of line 82 left out
AllEpochsPresent_Always(v) == TRUE

\* line 82: have_epoch.all()
AllEpochsPresent(v) == \A i \in DOMAIN v : v[i]

\* (variant) >= in place of > on line 89
ToMJD_NonStrict(epoch) ==
    IF epoch.mask THEN epoch
    ELSE IF epoch.value >= JD_OFFSET THEN Cell(epoch.value - JD_OFFSET)
    ELSE epoch

\* lines 89-92.  A masked epoch compares as masked, which is false as a
\* condition, so the else branch keeps it.
ToMJD(epoch) ==
    IF epoch.mask THEN epoch
    ELSE IF epoch.value > JD_OFFSET THEN Cell(epoch.value - JD_OFFSET)
    ELSE epoch

\* The names read from the row for each quant_type, in the order the list
\* of lines 95, 97, 99 reads them
QuantKeys(qtype) ==
    CASE qtype = "radec" -> <<"raoff", "raoff_err", "decoff", "decoff_err">>
      [] qtype = "seppa" -> <<"sep", "sep_err", "pa", "pa_err">>
      [] qtype = "rv"    -> <<"rv", "rv_err">>

\* (variant) the two error columns written the wrong way round
CanonicalRow_SwappedErr(MJD, row, qtype) ==
    LET k == QuantKeys(qtype) IN
    [epoch      |-> MJD,
     quant1     |-> row[k[1]],
     quant1_err |-> IF qtype = "rv" THEN row[k[2]] ELSE row[k[4]],
     quant2     |-> IF qtype = "rv" THEN Masked ELSE row[k[3]],
     quant2_err |-> IF qtype = "rv" THEN Masked ELSE row[k[2]],
     quant_type |-> qtype]

\* The row appended by lines 95, 97, 99
CanonicalRow(MJD, row, qtype) ==
    LET k == QuantKeys(qtype) IN
    [epoch      |-> MJD,
     quant1     |-> row[k[1]],
     quant1_err |-> row[k[2]],
     quant2     |-> IF qtype = "rv" THEN Masked ELSE row[k[3]],
     quant2_err |-> IF qtype = "rv" THEN Masked ELSE row[k[4]],
     quant_type |-> qtype]

\* row[key] raises KeyError for the first name that is not a column
MissingKeys(row, keys) == {k \in 1..Len(keys) : keys[k] \notin DOMAIN row}

FirstMissingKey(row, keys) ==
    keys[CHOOSE k \in MissingKeys(row, keys) : \A j \in MissingKeys(row, keys) : k <= j]

\* output_table.add_row([...]) of lines 95, 97, 99: nothing once an
\* exception is up; KeyError if a name is not a column; else the row is
\* appended at the end
AddRow(st, row, MJD, qtype) ==
    IF st.exception # NoException THEN st
    ELSE IF MissingKeys(row, QuantKeys(qtype)) # {}
    THEN [st EXCEPT !.exception = KeyError(FirstMissingKey(row, QuantKeys(qtype)))]
    ELSE [st EXCEPT !.out = Append(@, CanonicalRow(MJD, row, qtype))]

\* lines 94, 96, 98: the three conditions, at presence index idx (from 0)
HasRaDec(hv, idx) == hv.ra[idx + 1] /\ hv.dec[idx + 1]

HasSepPa(hv, idx) == hv.sep[idx + 1] /\ hv.pa[idx + 1]

\* (variant) the branch of line 98 never taken
HasRv_Never(hv, idx) == FALSE

HasRv(hv, idx) == hv.rv[idx + 1]

\* lines 88-99: the body of the loop for one row, from the table `out`
RowBody(hv, idx, row, out) ==
    LET MJD == ToMJD(row["epoch"])
        s0  == [out |-> out, exception |-> NoException]
        s1  == IF HasRaDec(hv, idx) THEN AddRow(s0, row, MJD, "radec") ELSE s0
        s2  == IF HasSepPa(hv, idx) THEN AddRow(s1, row, MJD, "seppa") ELSE s1
        s3  == IF HasRv(hv, idx) THEN AddRow(s2, row, MJD, "rv") ELSE s2
    IN  s3

\* (variant) line 100 left out
NextIndex_Stuck(idx) == idx

\* line 100
NextIndex(idx) == idx + 1

\* lines 86-100: the loop from the row at position pos on, with presence
\* index idx, stopping at the first exception
RECURSIVE RowLoop(_, _, _, _, _)
RowLoop(tbl, hv, idx, pos, st) ==
    IF st.exception # NoException \/ pos >= NumRows(tbl) THEN st
    ELSE RowLoop(tbl, hv, NextIndex(idx), pos + 1,
                 RowBody(hv, idx, tbl.rows[pos + 1], st.out))

\* lines 48-102: the whole call on table tbl: the output table built, the
\* exception raised (if any) and whether the table is returned
read_formatted_file(tbl) ==
    IF ~HasEpochColumn(tbl)
    THEN [output |-> <<>>, exception |-> MissingEpochColumn, returned |-> FALSE]
    ELSE IF ~AllEpochsPresent(Presence(tbl).epoch)
    THEN [output |-> <<>>, exception |-> IncompleteEpochColumn, returned |-> FALSE]
    ELSE LET st == RowLoop(tbl, Presence(tbl), 0, 0,
                           [out |-> <<>>, exception |-> NoException])
         IN  [output |-> st.out, exception |-> st.exception,
              returned |-> st.exception = NoException]

---------------------------------------------------------------------------
(* The function as a state machine *)

Init ==
    /\ IsInputTable(input_table)
    /\ pc = "validate"
    /\ have = NoPresence
    /\ index = 0
    /\ rowpos = 0
    /\ output_table = <<>>
    /\ origin = <<>>
    /\ exception = NoException
    /\ returned = FALSE

\* lines 57-60, else branch
RaiseMissingEpoch ==
    /\ pc = "validate"
    /\ ~HasEpochColumn(input_table)
    /\ pc' = "raised"
    /\ exception' = MissingEpochColumn
    /\ UNCHANGED <<input_table, have, index, rowpos, output_table, origin, returned>>

\* lines 57-80
ValidateInput ==
    /\ pc = "validate"
    /\ HasEpochColumn(input_table)
    /\ have' = Presence(input_table)
    /\ pc' = "check_epoch"
    /\ UNCHANGED <<input_table, index, rowpos, output_table, origin, exception, returned>>

\* lines 82-83
RaiseIncompleteEpoch ==
    /\ pc = "check_epoch"
    /\ ~AllEpochsPresent(have.epoch)
    /\ pc' = "raised"
    /\ exception' = IncompleteEpochColumn
    /\ UNCHANGED <<input_table, have, index, rowpos, output_table, origin, returned>>

\* lines 82, 86
BeginLoop ==
    /\ pc = "check_epoch"
    /\ AllEpochsPresent(have.epoch)
    /\ index' = 0
    /\ rowpos' = 0
    /\ pc' = "loop"
    /\ UNCHANGED <<input_table, have, output_table, origin, exception, returned>>

\* lines 87-100: one pass of the loop, on the row at position rowpos.  The
\* ghost variable origin records, for every output row, the position of the
\* input row it was appended for.
ProcessRow ==
    /\ pc = "loop"
    /\ rowpos < NumRows(input_table)
    /\ LET st == RowBody(have, index, input_table.rows[rowpos + 1], output_table) IN
         /\ output_table' = st.out
         /\ origin' = origin \o [k \in 1..(Len(st.out) - Len(output_table)) |-> rowpos]
         /\ exception' = st.exception
         /\ IF st.exception = NoException
            THEN /\ index' = NextIndex(index)
                 /\ rowpos' = rowpos + 1
                 /\ pc' = "loop"
            ELSE /\ pc' = "raised"
                 /\ UNCHANGED <<index, rowpos>>
    /\ UNCHANGED <<input_table, have, returned>>

\* line 102
ReturnTable ==
    /\ pc = "loop"
    /\ rowpos = NumRows(input_table)
    /\ pc' = "done"
    /\ returned' = TRUE
    /\ UNCHANGED <<input_table, have, index, rowpos, output_table, origin, exception>>

Next ==
    \/ RaiseMissingEpoch
    \/ ValidateInput
    \/ RaiseIncompleteEpoch
    \/ BeginLoop
    \/ ProcessRow
    \/ ReturnTable

Spec == Init /\ [][Next]_vars

---------------------------------------------------------------------------
(* Vocabulary of the properties, stated on the input file itself *)

Finished == pc \in {"done", "raised"}

QuantTypes == {"radec", "seppa", "rv"}

\* The measurement columns whose cells make a set of type t
SetColumns(t) ==
    CASE t = "radec" -> {"raoff", "decoff"}
      [] t = "seppa" -> {"sep", "pa"}
      [] t = "rv"    -> {"rv"}

\* Row i (from 1) of the input holds a value in column c
Filled(i, c) == c \in input_table.columns /\ ~input_table.rows[i][c].mask

\* Row i (from 1) of the input holds a complete measurement set of type t
SetPresent(i, t) == \A c \in SetColumns(t) : Filled(i, c)

SetsPresent(i) == {t \in QuantTypes : SetPresent(i, t)}

\* The output rows of type t appended for input row i (from 1)
Emitted(i, t) ==
    {k \in 1..Len(output_table) :
        origin[k] = i - 1 /\ output_table[k].quant_type = t}

EpochColumnComplete ==
    /\ "epoch" \in input_table.columns
    /\ \A i \in 1..NumRows(input_table) : ~input_table.rows[i]["epoch"].mask

\* The observable result of the run so far
Outcome == [output |-> output_table, exception |-> exception, returned |-> returned]

\* Position of a quant_type in the order of lines 94, 96, 98
TypeRank(t) == CASE t = "radec" -> 1 [] t = "seppa" -> 2 [] t = "rv" -> 3

IsPrefix(s, t) == Len(s) <= Len(t) /\ \A k \in 1..Len(s) : s[k] = t[k]

\* The input file with column c left out of the header
WithoutColumn(tbl, c) ==
    [columns |-> tbl.columns \ {c},
     rows |-> [i \in 1..NumRows(tbl) |-> [d \in tbl.columns \ {c} |-> tbl.rows[i][d]]]]

\* The input file with column c in the header and blank in every row
WithBlankColumn(tbl, c) ==
    [columns |-> tbl.columns \cup {c},
     rows |-> [i \in 1..NumRows(tbl) |->
                 [d \in tbl.columns \cup {c} |-> IF d = c THEN Masked ELSE tbl.rows[i][d]]]]

\* A canonical table written back under the input column names of each
\* row's quant_type, every other optional cell blank
Relabel(out) ==
    [columns |-> AllColumns,
     rows |-> [k \in 1..Len(out) |->
        [c \in AllColumns |->
           LET o == out[k]
               keys == QuantKeys(o.quant_type)
           IN  IF c = "epoch" THEN o.epoch
               ELSE IF c = keys[1] THEN o.quant1
               ELSE IF c = keys[2] THEN o.quant1_err
               ELSE IF o.quant_type # "rv" /\ c = keys[3] THEN o.quant2
               ELSE IF o.quant_type # "rv" /\ c = keys[4] THEN o.quant2_err
               ELSE Masked]]]

---------------------------------------------------------------------------
(* Properties *)

\* C1: for every input table that passes validation (epoch column present
\* and complete), once the call has ended every input row has exactly one
\* output row per measurement set present in it and none for the others:
\* one radec row iff raoff and decoff are filled, one seppa row iff sep and
\* pa are filled, one rv row iff rv is filled, whatever the *_err columns.
C1_OneRowPerPresentSet ==
    (EpochColumnComplete /\ Finished) =>
        \A i \in 1..NumRows(input_table) : \A t \in QuantTypes :
            Cardinality(Emitted(i, t)) = IF SetPresent(i, t) THEN 1 ELSE 0

\* C2: every output row carries the cells of the input row it was appended
\* for, by its quant_type: radec = (raoff, raoff_err, decoff, decoff_err),
\* seppa = (sep, sep_err, pa, pa_err), rv = (rv, rv_err, null, null); error
\* cells are copied as they are, null included; quant_type is one of the
\* three names.
C2_FieldsMappedByType ==
    \A k \in 1..Len(output_table) :
        LET o == output_table[k]
            r == input_table.rows[origin[k] + 1]
        IN  /\ o.quant_type \in QuantTypes
            /\ o.quant_type = "radec" =>
                 /\ {"raoff", "raoff_err", "decoff", "decoff_err"} \subseteq DOMAIN r
                 /\ o.quant1 = r["raoff"] /\ o.quant1_err = r["raoff_err"]
                 /\ o.quant2 = r["decoff"] /\ o.quant2_err = r["decoff_err"]
            /\ o.quant_type = "seppa" =>
                 /\ {"sep", "sep_err", "pa", "pa_err"} \subseteq DOMAIN r
                 /\ o.quant1 = r["sep"] /\ o.quant1_err = r["sep_err"]
                 /\ o.quant2 = r["pa"] /\ o.quant2_err = r["pa_err"]
            /\ o.quant_type = "rv" =>
                 /\ {"rv", "rv_err"} \subseteq DOMAIN r
                 /\ o.quant1 = r["rv"] /\ o.quant1_err = r["rv_err"]
                 /\ o.quant2 = Masked /\ o.quant2_err = Masked

\* C2 witness: the call returned rows of all three types, one of them a
\* radec row whose error cells are null and one with error cells filled
C2_Witness ==
    /\ pc = "done"
    /\ \A t \in QuantTypes : \E k \in 1..Len(output_table) : output_table[k].quant_type = t
    /\ \E k \in 1..Len(output_table) :
          /\ output_table[k].quant_type = "radec"
          /\ output_table[k].quant1_err = Masked
          /\ ~output_table[k].quant1.mask
    /\ \E k \in 1..Len(output_table) : ~output_table[k].quant1_err.mask

\* C3: the epoch of every output row is the input row's epoch minus
\* 2400000.5 d when that epoch is strictly greater than 2400000.5 d, and
\* the input epoch unchanged otherwise; 2400000.5 stays, 2451545.0 becomes
\* 51544.5, 51544.5 stays (half days: 4800001, 4903090, 103089).
C3_EpochNormalized ==
    \A k \in 1..Len(output_table) :
        LET e == input_table.rows[origin[k] + 1]["epoch"]
            m == output_table[k].epoch
        IN  /\ ~e.mask /\ ~m.mask
            /\ e.value > 4800001 => m.value = e.value - 4800001
            /\ e.value <= 4800001 => m.value = e.value
            /\ e.value = 4800001 => m.value = 4800001
            /\ e.value = 4903090 => m.value = 103089
            /\ e.value = 103089 => m.value = 103089

\* C3 witness: one returned table holds rows for the epochs 2400000.5,
\* 2451545.0 and 51544.5
C3_Witness ==
    /\ pc = "done"
    /\ \A v \in {4800001, 4903090, 103089} :
          \E k \in 1..Len(output_table) :
              input_table.rows[origin[k] + 1]["epoch"] = Cell(v)

\* C4: with no epoch column in the header the call raises the
\* missing-column error before any row is read: no output row is ever
\* appended, no table is returned, and the error is not the
\* incomplete-epoch error.
C4_MissingEpochColumnFails ==
    ("epoch" \notin input_table.columns) =>
        /\ output_table = <<>>
        /\ ~returned
        /\ rowpos = 0
        /\ pc \in {"validate", "raised"}
        /\ pc = "validate" => ENABLED RaiseMissingEpoch
        /\ pc = "raised" => exception = MissingEpochColumn
        /\ MissingEpochColumn # IncompleteEpochColumn

\* C4 witness: the error is up for a file without epoch column whose first
\* row holds all three measurement sets
C4_Witness ==
    /\ pc = "raised"
    /\ exception = MissingEpochColumn
    /\ "epoch" \notin input_table.columns
    /\ NumRows(input_table) >= 1
    /\ SetsPresent(1) = QuantTypes

\* C5: with an epoch column that has a blank cell the call raises the
\* incomplete-column error before the loop: no output row is appended and
\* no table is returned, also when the rows before the blank are valid.
C5_IncompleteEpochFails ==
    (/\ "epoch" \in input_table.columns
     /\ \E i \in 1..NumRows(input_table) : input_table.rows[i]["epoch"].mask) =>
        /\ output_table = <<>>
        /\ ~returned
        /\ rowpos = 0
        /\ pc \in {"validate", "check_epoch", "raised"}
        /\ pc = "check_epoch" => ENABLED RaiseIncompleteEpoch /\ ~ENABLED BeginLoop
        /\ pc = "raised" => exception = IncompleteEpochColumn

\* C5 witness: the error is up for a file whose first row is complete and
\* valid and whose second row has a blank epoch
C5_Witness ==
    /\ pc = "raised"
    /\ exception = IncompleteEpochColumn
    /\ NumRows(input_table) >= 2
    /\ ~input_table.rows[1]["epoch"].mask
    /\ SetsPresent(1) = QuantTypes
    /\ input_table.rows[2]["epoch"].mask

\* C6: with the epoch column present and complete the call never raises,
\* whichever optional columns are left out, blank or filled.
C6_OnlyTwoFailures ==
    EpochColumnComplete => pc # "raised"

RoundTrips ==
    read_formatted_file(Relabel(output_table)) =
        [output |-> output_table, exception |-> NoException, returned |-> TRUE]

\* C8 as stated: for every returned table, relabelling it and calling the
\* function again gives the same rows, epochs included, for every epoch.
C8_RoundTripAnyEpoch ==
    pc = "done" => RoundTrips

\* C8 amended: the same, for returned tables whose epochs are all at most
\* 2400000.5 d (input epochs at most 4800001.0 d).
C8_RoundTripBelowThreshold ==
    (pc = "done" /\ \A k \in 1..Len(output_table) : output_table[k].epoch.value <= 4800001)
        => RoundTrips

\* C8 witness: a returned table with all three row types, from a Julian
\* date, that round-trips
C8_Witness ==
    /\ pc = "done"
    /\ \A t \in QuantTypes : \E k \in 1..Len(output_table) : output_table[k].quant_type = t
    /\ \E k \in 1..Len(output_table) :
          input_table.rows[origin[k] + 1]["epoch"].value > 4800001
    /\ \A k \in 1..Len(output_table) : output_table[k].epoch.value <= 4800001
    /\ RoundTrips

\* C9 as stated: when some row holds more than one measurement set, the
\* returned table has at least as many rows as the input.
C9_CountWhenSomeRowMultiple ==
    (/\ pc = "done"
     /\ \E i \in 1..NumRows(input_table) : Cardinality(SetsPresent(i)) > 1)
        => Len(output_table) >= NumRows(input_table)

\* C9 amended: when some row holds more than one measurement set and every
\* row holds at least one, the returned table has at least as many rows as
\* the input.
C9_CountWhenEveryRowYields ==
    (/\ pc = "done"
     /\ \E i \in 1..NumRows(input_table) : Cardinality(SetsPresent(i)) > 1
     /\ \A i \in 1..NumRows(input_table) : Cardinality(SetsPresent(i)) >= 1)
        => Len(output_table) >= NumRows(input_table)

\* C9 witness: a returned table longer than its input of two rows or more,
\* one of them holding a single set
C9_Witness ==
    /\ pc = "done"
    /\ NumRows(input_table) >= 2
    /\ \E i \in 1..NumRows(input_table) : Cardinality(SetsPresent(i)) > 1
    /\ \E i \in 1..NumRows(input_table) : Cardinality(SetsPresent(i)) = 1
    /\ \A i \in 1..NumRows(input_table) : Cardinality(SetsPresent(i)) >= 1
    /\ Len(output_table) > NumRows(input_table)

\* The output rows are in input-row order and, within one input row, in
\* the order radec, seppa, rv
OutputOrdered ==
    \A k \in 1..(Len(output_table) - 1) :
        \/ origin[k] < origin[k + 1]
        \/ /\ origin[k] = origin[k + 1]
           /\ TypeRank(output_table[k].quant_type) < TypeRank(output_table[k + 1].quant_type)

\* C10: at every step the output table is the previous one with rows
\* appended at the end, the input table is not modified, the presence index
\* used for a row is that row's position, and the output rows are in
\* input-row order and within a row in the order radec, seppa, rv.
C10_AppendOnlyOrdered ==
    /\ [](pc = "loop" => index = rowpos)
    /\ []OutputOrdered
    /\ [][/\ IsPrefix(output_table, output_table')
          /\ input_table' = input_table]_vars

\* C10 witness: a returned table of four rows or more from two input rows
\* that each gave more than one row
C10_Witness ==
    /\ pc = "done"
    /\ Len(output_table) >= 4
    /\ \E i, j \in 1..NumRows(input_table) :
          /\ i < j
          /\ \E t, u \in QuantTypes : t # u /\ Emitted(i, t) # {} /\ Emitted(i, u) # {}
          /\ \E t, u \in QuantTypes : t # u /\ Emitted(j, t) # {} /\ Emitted(j, u) # {}

====
